---- MODULE Spec2Model ----
(***************************************************************************)
(* Vectorized-environment process managers of sc2/envs/env_wrappers.py:    *)
(* ShareSubprocVecEnv (one environment per worker process, worker loop     *)
(* shareworker) and HybridVecEnv (a contiguous group of environments per   *)
(* worker process, worker loop HybridVecEnv.worker).                       *)
(*                                                                         *)
(* The controller is single threaded: it is modelled by a program counter  *)
(* pc = [at, i] that walks the loops of the manager methods, one pipe      *)
(* operation per step.  Every worker process handles one command per step. *)
(* Workers, slots and remotes are numbered from 0 as in the source; a      *)
(* batch is a sequence whose position k+1 holds the value of slot k.       *)
(***************************************************************************)
EXTENDS Integers, Sequences, FiniteSets, TLC

\* ---------------------------------------------------------------- bounds
MaxEnvs == 3
MaxProcs == 2
MaxCalls == 3
MaxFail == 1
MaxShort == 1
MaxEnds == 1
MaxRaw == 1
\* MaxEnvs bounds len(env_fns) of HybridVecEnv, MaxProcs its n_procs argument
\* and len(env_fns) of ShareSubprocVecEnv (one process per environment).

VARIABLES
  topo,           \* "share" (ShareSubprocVecEnv) or "hybrid" (HybridVecEnv)
  total_envs,     \* len(env_fns)
  n_procs_arg,    \* the n_procs argument of HybridVecEnv.__init__
  n_procs,        \* number of worker processes = len(self.remotes)
  envs_per_proc,  \* environments owned by each worker
  fork,           \* TRUE: processes start by fork and inherit every open handle
  ps,             \* ps[w]: state of worker process w
  holdC,          \* holdC[c]: processes holding remotes[c] (controller end) open
  holdW,          \* holdW[c]: processes holding work_remotes[c] (worker end) open
  cmdq,           \* cmdq[c]: messages sent on remotes[c], not yet received by the worker
  repq,           \* repq[c]: messages sent by worker c, not yet received by the controller
  envEp,          \* envEp[k]: number of times env k has been reset
  envClosed,      \* envClosed[k]: number of times env k's close has been called
  fails,          \* number of environment calls that raised so far
  faults,         \* history: the environment calls that raised, with the call that sent them
  ends,           \* number of env.step calls that reported a done other than False
  waiting,        \* self.waiting
  closed,         \* self.closed
  pc,             \* the controller's position: [at |-> label, i |-> loop index]
  args,           \* the actions argument of the running step_async
  results,        \* the results list built by the running receive loop
  ret,            \* outcome of the last finished manager call
  calls,          \* number of manager calls started
  inStep,         \* the running call is step(): step_async, then step_wait
  misused,        \* history: some call broke a precondition of the waiting protocol
  raws,           \* number of messages the caller wrote on a remote itself
  hist,           \* what the running (or last) manager call did on the channels
  shortStep,      \* history: some step_async got fewer actions than there are slots
  overtook        \* history: since the last request a worker replied before a lower-numbered one

cfgv  == <<topo, total_envs, n_procs_arg, n_procs, envs_per_proc, fork>>
procv == <<ps, holdC, holdW>>
chanv == <<cmdq, repq>>
envv  == <<envEp, envClosed, fails, faults, ends>>
flagv == <<waiting, closed>>
vars  == <<topo, total_envs, n_procs_arg, n_procs, envs_per_proc, fork,
           ps, holdC, holdW, cmdq, repq, envEp, envClosed, fails, faults, ends,
           waiting, closed, pc, args, results, ret, calls, inStep, misused, raws,
           hist, shortStep, overtook>>
histv == <<hist, shortStep, overtook>>
callv == <<calls, inStep, misused, raws>>

\* ------------------------------------------------------------- helpers
Min(a, b) == IF a <= b THEN a ELSE b

Ctl == -1                        \* the controller process
NoAct == -1                      \* "no action": the act field of a reset output

Remotes == 0 .. (n_procs - 1)    \* indices of self.remotes / self.ps
Slots == 0 .. (total_envs - 1)   \* indices of env_fns

\* (mutant of Owned: start_idx = proc_idx * (envs_per_proc - 1))
OwnedOverlap(w) == IF topo = "share" THEN <<w>>
                   ELSE [j \in 1 .. envs_per_proc |-> (w * (envs_per_proc - 1)) + (j - 1)]

\* env_fns[start_idx:end_idx] of worker w; the one env_fn of worker w in "share"
Owned(w) == IF topo = "share" THEN <<w>>
            ELSE [j \in 1 .. envs_per_proc |-> (w * envs_per_proc) + (j - 1)]

\* -------------------------------------------------- the wrapped environment
\* done as the environment returns it: a bool, or an array of per-agent bools
NoDone == [cls |-> "none", vals |-> <<>>]
DoneVals == {[cls |-> "bool", vals |-> <<b>>] : b \in BOOLEAN}
            \cup {[cls |-> "ndarray", vals |-> v] :
                     v \in {<<TRUE, TRUE>>, <<TRUE, FALSE>>, <<FALSE, FALSE>>}}

\* One value returned by an environment call: field f of the output of call
\* src of env k in its episode ep, for action a, the call having reported d.
Out(f, k, src, ep, a, d) ==
  [f |-> f, env |-> k, src |-> src, ep |-> ep, act |-> a, done |-> d]

\* env.step(a) -> (ob, s_ob, reward, done, info, available_actions)
EnvStep(k, ep, a, d) ==
  << Out("ob", k, "step", ep, a, d), Out("s_ob", k, "step", ep, a, d),
     Out("reward", k, "step", ep, a, d), Out("done", k, "step", ep, a, d),
     Out("info", k, "step", ep, a, d),
     Out("available_actions", k, "step", ep, a, d) >>

\* env.reset() -> (ob, s_ob, available_actions), opening episode ep + 1
EnvReset(k, ep) ==
  << Out("ob", k, "reset", ep + 1, NoAct, NoDone),
     Out("s_ob", k, "reset", ep + 1, NoAct, NoDone),
     Out("available_actions", k, "reset", ep + 1, NoAct, NoDone) >>

\* (env.observation_space, env.share_observation_space, env.action_space)
EnvSpaces(k) ==
  << Out("observation_space", k, "spaces", 0, NoAct, NoDone),
     Out("share_observation_space", k, "spaces", 0, NoAct, NoDone),
     Out("action_space", k, "spaces", 0, NoAct, NoDone) >>

\* ------------------------------------------------------------ shareworker
\* (mutant of DoneTriggersReset: np.any in place of np.all)
DoneTriggersResetAny(d) ==
  IF d.cls = "bool" THEN d.vals[1] ELSE \E i \in DOMAIN d.vals : d.vals[i]

\* 'bool' in done.__class__.__name__ : if done ; else : if np.all(done)
DoneTriggersReset(d) ==
  IF d.cls = "bool" THEN d.vals[1] ELSE \A i \in DOMAIN d.vals : d.vals[i]

\* the tuple shareworker sends for ('step', a)
ShareStepReply(k, ep, a, d) ==
  LET r  == EnvStep(k, ep, a, d)
      rs == EnvReset(k, ep)
  IN  IF DoneTriggersReset(d)
      THEN <<rs[1], rs[2], r[3], r[4], r[5], rs[3]>>
      ELSE r

\* ------------------------------------------------------ HybridVecEnv.worker
\* zip(*results): one tuple per field, as long as the shortest result
MinLen(rs) == CHOOSE m \in {Len(rs[i]) : i \in DOMAIN rs} :
                 \A i \in DOMAIN rs : m <= Len(rs[i])
Zip(rs) == IF rs = <<>> THEN <<>>
           ELSE [j \in 1 .. MinLen(rs) |-> [i \in 1 .. Len(rs) |-> rs[i][j]]]

\* results = [env.step(a) for env, a in zip(envs, data)]
HybridStepResults(w, data, ds) ==
  [j \in 1 .. Min(envs_per_proc, Len(data)) |->
      EnvStep(Owned(w)[j], envEp[Owned(w)[j]], data[j], ds[j])]

\* obs, share_obs, _, _, _, available_actions = zip(*results);
\* the tuple sent is (obs, share_obs, available_actions)
HybridStepReply(rs) == LET z == Zip(rs) IN <<z[1], z[2], z[6]>>

\* results = [env.reset() for env in envs]; remote.send(zip(*results))
HybridResetReply(w) ==
  Zip([j \in 1 .. envs_per_proc |-> EnvReset(Owned(w)[j], envEp[Owned(w)[j]])])

\* ------------------------------------------------------------- np.array_split
\* np.array_split(actions, n): the first len % n chunks hold len // n + 1 items
SplitStart(len, n, i) == (i * (len \div n)) + Min(i, len % n)
SplitSize(len, n, i) == (len \div n) + (IF i < len % n THEN 1 ELSE 0)
ArraySplit(actions, n) ==
  [c \in 1 .. n |->
     SubSeq(actions, SplitStart(Len(actions), n, c - 1) + 1,
            SplitStart(Len(actions), n, c - 1) + SplitSize(Len(actions), n, c - 1))]

\* the ('step', data) payload step_async sends on remotes[c]
StepPayload(c) == IF topo = "share" THEN args[c + 1]
                  ELSE ArraySplit(args, n_procs)[c + 1]

\* (mutant of StepTargets: only the first remote is sent to)
StepTargetsOnlyFirst == Min(1, n_procs)

\* how many remotes step_async sends to: zip(self.remotes, actions)
StepTargets == IF topo = "share" THEN Min(n_procs, Len(args)) ELSE n_procs

\* ------------------------------------------------------------------ pipes
\* the (cmd, data) tuple; call is history, not on the pipe: the number of the
\* manager call that sent the message
Msg(cmd, data) == [cmd |-> cmd, data |-> data, call |-> calls]

\* remote.send on the controller end raises BrokenPipeError when no process
\* holds the worker end open
SendFails(c) == holdW[c] = {}
\* remote.recv: a buffered message is delivered; with none buffered it raises
\* EOFError when no process holds the worker end open, and blocks otherwise
CanRecv(c) == repq[c] # <<>>
RecvEOF(c) == repq[c] = <<>> /\ holdW[c] = {}

\* a process that exits gives up every handle it holds
Release(h, w) == [c \in DOMAIN h |-> h[c] \ {w}]

Idle == [at |-> "idle", i |-> 0]
At(l, i) == [at |-> l, i |-> i]
NoHist == [op |-> "none", dead |-> {}, idle |-> {}, sent |-> {}, msgs |-> <<>>,
           recvd |-> <<>>, drained |-> {}, closeSent |-> {}, joined |-> {}]
\* the record of a call after it sent m on remotes[c] / received r from remotes[c]
Sent(h, c, m) == [h EXCEPT !.sent = @ \cup {c},
                           !.msgs = Append(@, [c |-> c, cmd |-> m.cmd, data |-> m.data])]
Recvd(h, c, r) == [h EXCEPT !.recvd = Append(@, [c |-> c, reply |-> r])]
Returned(op, batches) == [op |-> op, status |-> "ok", err |-> "none", batches |-> batches]
Raised(op, err) == [op |-> op, status |-> "raised", err |-> err, batches |-> <<>>]

\* ------------------------------------------------------------------- Init
\* self.waiting = False, self.closed = False, the pipes created, no process started
InitManager ==
  /\ topo \in {"share", "hybrid"}
  /\ total_envs \in 1 .. MaxEnvs
  /\ n_procs_arg \in 1 .. MaxProcs
  /\ topo = "share" => n_procs_arg = 1 /\ total_envs <= MaxProcs
  /\ fork \in BOOLEAN
  /\ n_procs = IF topo = "share" THEN total_envs ELSE Min(n_procs_arg, total_envs)
  /\ envs_per_proc = IF topo = "share" THEN 1
                     ELSE total_envs \div Min(n_procs_arg, total_envs)
  /\ ps = [w \in 0 .. (n_procs - 1) |-> "new"]
  /\ holdC = [c \in 0 .. (n_procs - 1) |-> {Ctl}]
  /\ holdW = [c \in 0 .. (n_procs - 1) |-> {Ctl}]
  /\ cmdq = [c \in 0 .. (n_procs - 1) |-> <<>>]
  /\ repq = [c \in 0 .. (n_procs - 1) |-> <<>>]
  /\ envEp = [k \in 0 .. (total_envs - 1) |-> 0]
  /\ envClosed = [k \in 0 .. (total_envs - 1) |-> 0]
  /\ fails = 0
  /\ faults = {}
  /\ waiting = FALSE
  /\ closed = FALSE
  /\ pc = At("ctor_start", 0)
  /\ args = <<>>
  /\ results = <<>>
  /\ ret = [op |-> "none", status |-> "none", err |-> "none", batches |-> <<>>]
  /\ calls = 0
  /\ inStep = FALSE
  /\ misused = FALSE
  /\ raws = 0
  /\ hist = NoHist
  /\ shortStep = FALSE
  /\ overtook = FALSE

Init == InitManager /\ ends = 0

\* ------------------------------------------------------------ construction
\* p.start() of self.ps[i]: the child holds the ends it was given and, when
\* started by fork, every end the parent holds open at that moment
ctor_start ==
  /\ pc.at = "ctor_start"
  /\ ps' = [ps EXCEPT ![pc.i] = "started"]
  /\ holdC' = [c \in DOMAIN holdC |->
                 IF c = pc.i \/ (fork /\ Ctl \in holdC[c]) THEN holdC[c] \cup {pc.i}
                 ELSE holdC[c]]
  /\ holdW' = [c \in DOMAIN holdW |->
                 IF c = pc.i \/ (fork /\ Ctl \in holdW[c]) THEN holdW[c] \cup {pc.i}
                 ELSE holdW[c]]
  /\ pc' = IF pc.i + 1 < n_procs THEN At("ctor_start", pc.i + 1)
           ELSE At("ctor_close", 0)
  /\ UNCHANGED <<cfgv, chanv, envv, flagv, args, results, ret, callv, histv>>

\* for remote in self.work_remotes: remote.close()
ctor_close ==
  /\ pc.at = "ctor_close"
  /\ holdW' = [holdW EXCEPT ![pc.i] = @ \ {Ctl}]
  /\ pc' = IF pc.i + 1 < n_procs THEN At("ctor_close", pc.i + 1)
           ELSE IF topo = "share" THEN At("ctor_get_spaces_send", 0)
           ELSE Idle
  /\ UNCHANGED <<cfgv, ps, holdC, chanv, envv, flagv, args, results, ret, callv, histv>>

\* self.remotes[0].send(('get_spaces', None))
ctor_get_spaces_send ==
  /\ pc.at = "ctor_get_spaces_send"
  /\ IF SendFails(0)
     THEN /\ pc' = Idle
          /\ ret' = Raised("__init__", "BrokenPipeError")
          /\ UNCHANGED <<cmdq, hist>>
     ELSE /\ cmdq' = [cmdq EXCEPT ![0] = Append(@, Msg("get_spaces", <<>>))]
          /\ hist' = [Sent(hist, 0, Msg("get_spaces", <<>>)) EXCEPT !.op = "__init__"]
          /\ pc' = At("ctor_get_spaces_recv", 0)
          /\ UNCHANGED ret
  /\ UNCHANGED <<cfgv, procv, repq, envv, flagv, args, results, callv, shortStep, overtook>>

\* (mutant of ctor_get_spaces_recv: __init__ returns without reading the reply)
ctor_get_spaces_norecv ==
  /\ pc.at = "ctor_get_spaces_recv"
  /\ ret' = Returned("__init__", EnvSpaces(0))
  /\ pc' = Idle
  /\ UNCHANGED <<cfgv, procv, chanv, envv, flagv, args, results, callv, histv>>

\* observation_space, share_observation_space, action_space = self.remotes[0].recv()
ctor_get_spaces_recv ==
  /\ pc.at = "ctor_get_spaces_recv"
  /\ CanRecv(0) \/ RecvEOF(0)
  /\ IF CanRecv(0)
     THEN /\ repq' = [repq EXCEPT ![0] = Tail(@)]
          /\ ret' = Returned("__init__", Head(repq[0]))
     ELSE /\ ret' = Raised("__init__", "EOFError")
          /\ UNCHANGED repq
  /\ pc' = Idle
  /\ UNCHANGED <<cfgv, procv, cmdq, envv, flagv, args, results, callv, histv>>

\* ------------------------------------------------------------ manager calls
\* the documented preconditions (l.86-87, l.94): step_async is not called while
\* a step is pending, step_wait waits for a step taken with step_async
Misuse(op) ==
  \/ op \in {"step_async", "step"} /\ waiting
  \/ op = "step_wait" /\ ~waiting

\* the channels with no message either way
IdleChannels == {c \in Remotes : cmdq[c] = <<>> /\ repq[c] = <<>>}

\* a manager method is entered only from the caller's own code, between calls
BeginCall(op) ==
  /\ pc = Idle
  /\ calls < MaxCalls
  /\ calls' = calls + 1
  /\ inStep' = (op = "step")
  /\ misused' = (misused \/ Misuse(op))
  /\ UNCHANGED raws
  /\ hist' = [NoHist EXCEPT !.op = op,
                            !.dead = {w \in Remotes : ps[w] \in {"exited", "crashed"}},
                            !.idle = IdleChannels]
  /\ overtook' = IF op \in {"reset", "step_async", "step"} THEN FALSE ELSE overtook

\* the method the caller called: step_async and step_wait run inside step()
Op(m) == IF inStep THEN "step" ELSE m

Running(op) == [op |-> op, status |-> "running", err |-> "none", batches |-> <<>>]

\* np.stack of each zipped field (ShareSubprocVecEnv): raises ValueError when
\* the zipped results do not unpack into exactly nfields names
ShareGather(op, rs, nfields) ==
  IF Len(Zip(rs)) = nfields THEN Returned(op, Zip(rs)) ELSE Raised(op, "ValueError")

\* obs_all.extend(obs) ... over results (HybridVecEnv)
RECURSIVE Extend(_, _)
Extend(rs, f) == IF rs = <<>> THEN <<>> ELSE Head(rs)[f] \o Extend(Tail(rs), f)

HybridGather(op, rs) ==
  IF \E i \in DOMAIN rs : Len(rs[i]) # 3 THEN Raised(op, "ValueError")
  ELSE Returned(op, <<Extend(rs, 1), Extend(rs, 2), Extend(rs, 3)>>)

\* (mutant of Gather: the results collected newest first)
RECURSIVE Reverse(_)
Reverse(q) == IF q = <<>> THEN <<>> ELSE Append(Reverse(Tail(q)), Head(q))
GatherReversed(op, rs, nfields) ==
  IF topo = "share" THEN ShareGather(op, Reverse(rs), nfields)
  ELSE HybridGather(op, Reverse(rs))

Gather(op, rs, nfields) ==
  IF topo = "share" THEN ShareGather(op, rs, nfields) ELSE HybridGather(op, rs)

\* ---- reset()
Call_reset ==
  /\ BeginCall("reset")
  /\ pc' = At("reset_send", 0)
  /\ args' = <<>>
  /\ results' = <<>>
  /\ ret' = Running("reset")
  /\ UNCHANGED <<cfgv, procv, chanv, envv, flagv, shortStep>>

\* for remote in self.remotes: remote.send(('reset', None))
reset_send ==
  /\ pc.at = "reset_send"
  /\ IF SendFails(pc.i)
     THEN /\ pc' = Idle
          /\ ret' = Raised("reset", "BrokenPipeError")
          /\ UNCHANGED <<cmdq, hist>>
     ELSE /\ cmdq' = [cmdq EXCEPT ![pc.i] = Append(@, Msg("reset", <<>>))]
          /\ hist' = Sent(hist, pc.i, Msg("reset", <<>>))
          /\ pc' = IF pc.i + 1 < n_procs THEN At("reset_send", pc.i + 1)
                   ELSE At("reset_recv", 0)
          /\ UNCHANGED ret
  /\ UNCHANGED <<cfgv, procv, repq, envv, flagv, args, results, callv, shortStep, overtook>>

\* results = [remote.recv() for remote in self.remotes]; unpack and return
reset_recv ==
  /\ pc.at = "reset_recv"
  /\ CanRecv(pc.i) \/ RecvEOF(pc.i)
  /\ IF CanRecv(pc.i)
     THEN /\ repq' = [repq EXCEPT ![pc.i] = Tail(@)]
          /\ hist' = Recvd(hist, pc.i, Head(repq[pc.i]))
          /\ IF pc.i + 1 < n_procs
             THEN /\ results' = Append(results, Head(repq[pc.i]))
                  /\ pc' = At("reset_recv", pc.i + 1)
                  /\ UNCHANGED ret
             ELSE /\ results' = <<>>
                  /\ pc' = Idle
                  /\ ret' = Gather("reset", Append(results, Head(repq[pc.i])), 3)
     ELSE /\ ret' = Raised("reset", "EOFError")
          /\ results' = <<>>
          /\ pc' = Idle
          /\ UNCHANGED <<repq, hist>>
  /\ UNCHANGED <<cfgv, procv, cmdq, envv, flagv, args, callv, shortStep, overtook>>

\* ---- step_async(actions); the action at position k + 1 is named k
Actions(len) == [p \in 1 .. len |-> p - 1]
ActLens == {l \in 0 .. total_envs : l + MaxShort >= total_envs}

Call_step_async ==
  /\ BeginCall("step_async")
  /\ \E len \in ActLens :
       /\ args' = Actions(len)
       /\ shortStep' = (shortStep \/ len < total_envs)
       /\ IF topo = "share" /\ len = 0
          THEN /\ waiting' = TRUE
               /\ pc' = Idle
               /\ ret' = Returned("step_async", <<>>)
          ELSE /\ pc' = At("step_async_send", 0)
               /\ ret' = Running("step_async")
               /\ UNCHANGED waiting
  /\ results' = <<>>
  /\ UNCHANGED <<cfgv, procv, chanv, envv, closed>>

\* (mutant of AfterStepAsync: step() returns without 'return self.step_wait()')
AfterStepAsyncNoWait == Idle

\* where the controller goes when step_async returns: to the caller, or, inside
\* step(), on to step_wait
AfterStepAsync == IF inStep THEN At("step_wait_recv", 0) ELSE Idle

\* the outcome on record when step_async returns
StepAsyncDone == IF AfterStepAsync = Idle THEN Returned(Op("step_async"), <<>>)
                 ELSE Running("step")

\* for remote, action in zip(...): remote.send(('step', action)); self.waiting = True
step_async_send ==
  /\ pc.at = "step_async_send"
  /\ IF SendFails(pc.i)
     THEN /\ pc' = Idle
          /\ ret' = Raised(Op("step_async"), "BrokenPipeError")
          /\ UNCHANGED <<cmdq, hist, waiting>>
     ELSE /\ cmdq' = [cmdq EXCEPT ![pc.i] = Append(@, Msg("step", StepPayload(pc.i)))]
          /\ hist' = Sent(hist, pc.i, Msg("step", StepPayload(pc.i)))
          /\ IF pc.i + 1 < StepTargets
             THEN /\ pc' = At("step_async_send", pc.i + 1)
                  /\ UNCHANGED <<ret, waiting>>
             ELSE /\ pc' = AfterStepAsync
                  /\ waiting' = TRUE
                  /\ ret' = StepAsyncDone
  /\ UNCHANGED <<cfgv, procv, repq, envv, closed, args, results, callv, shortStep, overtook>>

\* ---- step_wait()
\* (mutant of Call_step_wait: 'if not self.waiting: return' before the receives)
Call_step_wait_guarded ==
  /\ BeginCall("step_wait")
  /\ IF waiting
     THEN /\ pc' = At("step_wait_recv", 0)
          /\ ret' = Running("step_wait")
     ELSE /\ pc' = Idle
          /\ ret' = Returned("step_wait", <<>>)
  /\ args' = <<>>
  /\ results' = <<>>
  /\ UNCHANGED <<cfgv, procv, chanv, envv, flagv, shortStep>>

Call_step_wait ==
  /\ BeginCall("step_wait")
  /\ pc' = At("step_wait_recv", 0)
  /\ args' = <<>>
  /\ results' = <<>>
  /\ ret' = Running("step_wait")
  /\ UNCHANGED <<cfgv, procv, chanv, envv, flagv, shortStep>>

\* results = [remote.recv() ...]; self.waiting = False; unpack and return
step_wait_recv ==
  /\ pc.at = "step_wait_recv"
  /\ CanRecv(pc.i) \/ RecvEOF(pc.i)
  /\ IF CanRecv(pc.i)
     THEN /\ repq' = [repq EXCEPT ![pc.i] = Tail(@)]
          /\ hist' = Recvd(hist, pc.i, Head(repq[pc.i]))
          /\ IF pc.i + 1 < n_procs
             THEN /\ results' = Append(results, Head(repq[pc.i]))
                  /\ pc' = At("step_wait_recv", pc.i + 1)
                  /\ UNCHANGED <<ret, waiting>>
             ELSE /\ results' = <<>>
                  /\ pc' = Idle
                  /\ waiting' = FALSE
                  /\ ret' = Gather(Op("step_wait"), Append(results, Head(repq[pc.i])), 6)
     ELSE /\ ret' = Raised(Op("step_wait"), "EOFError")
          /\ results' = <<>>
          /\ pc' = Idle
          /\ UNCHANGED <<repq, waiting, hist>>
  /\ UNCHANGED <<cfgv, procv, cmdq, envv, closed, args, callv, shortStep, overtook>>

\* ---- step(actions): self.step_async(actions); return self.step_wait()
Call_step ==
  /\ BeginCall("step")
  /\ \E len \in ActLens :
       /\ args' = Actions(len)
       /\ shortStep' = (shortStep \/ len < total_envs)
       /\ IF topo = "share" /\ len = 0
          THEN /\ waiting' = TRUE
               /\ pc' = At("step_wait_recv", 0)
          ELSE /\ pc' = At("step_async_send", 0)
               /\ UNCHANGED waiting
  /\ ret' = Running("step")
  /\ results' = <<>>
  /\ UNCHANGED <<cfgv, procv, chanv, envv, closed>>

\* ---- the caller writes a (tag, None) tuple on a remote of the manager itself
RawTags == {"unknown"}

raw_send ==
  /\ pc = Idle
  /\ calls < MaxCalls
  /\ raws < MaxRaw
  /\ calls' = calls + 1
  /\ raws' = raws + 1
  /\ inStep' = FALSE
  /\ misused' = TRUE
  /\ \E c \in Remotes : \E tag \in RawTags :
       /\ hist' = [NoHist EXCEPT !.op = "send",
                                 !.dead = {w \in Remotes : ps[w] \in {"exited", "crashed"}},
                                 !.idle = IdleChannels,
                                 !.sent = IF SendFails(c) THEN {} ELSE {c},
                                 !.msgs = IF SendFails(c) THEN <<>>
                                          ELSE <<[c |-> c, cmd |-> tag, data |-> <<>>]>>]
       /\ IF SendFails(c)
          THEN /\ ret' = Raised("send", "BrokenPipeError")
               /\ UNCHANGED cmdq
          ELSE /\ cmdq' = [cmdq EXCEPT ![c] = Append(@, [Msg(tag, <<>>) EXCEPT !.call = calls + 1])]
               /\ ret' = Returned("send", <<>>)
  /\ UNCHANGED <<cfgv, procv, repq, envv, flagv, pc, args, results, shortStep, overtook>>

\* ---- close()
\* (mutant of CloseEntry: no 'if self.closed: return')
CloseEntryNoGuard == IF waiting THEN "close_drain" ELSE "close_send"

\* (mutant of CloseEntry: no 'if self.waiting:' drain before 'close' is sent)
CloseEntryNoDrain == IF closed THEN "return" ELSE "close_send"

\* (mutant of Joined: close() does not wait for the process to exit)
JoinedNoWait(c) == TRUE

\* p.join() returns once process c has ended
Joined(c) == ps[c] \in {"exited", "crashed"}

\* (mutant of CloseEntry: the drain runs when no step is pending, not when one is)
CloseEntryInverted == IF closed THEN "return"
                      ELSE IF waiting THEN "close_send" ELSE "close_drain"

\* if self.closed: return ; if self.waiting: drain ; then send 'close'
CloseEntry == IF closed THEN "return"
              ELSE IF waiting THEN "close_drain" ELSE "close_send"

Call_close ==
  /\ BeginCall("close")
  /\ IF CloseEntry = "return"
     THEN /\ pc' = Idle
          /\ ret' = Returned("close", <<>>)
     ELSE /\ pc' = At(CloseEntry, 0)
          /\ ret' = Running("close")
  /\ args' = <<>>
  /\ results' = <<>>
  /\ UNCHANGED <<cfgv, procv, chanv, envv, flagv, shortStep>>

\* if self.waiting: for remote in self.remotes: remote.recv()
close_drain ==
  /\ pc.at = "close_drain"
  /\ CanRecv(pc.i) \/ RecvEOF(pc.i)
  /\ IF CanRecv(pc.i)
     THEN /\ repq' = [repq EXCEPT ![pc.i] = Tail(@)]
          /\ hist' = [Recvd(hist, pc.i, Head(repq[pc.i])) EXCEPT !.drained = @ \cup {pc.i}]
          /\ pc' = IF pc.i + 1 < n_procs THEN At("close_drain", pc.i + 1)
                   ELSE At("close_send", 0)
          /\ UNCHANGED ret
     ELSE /\ ret' = Raised("close", "EOFError")
          /\ pc' = Idle
          /\ UNCHANGED <<repq, hist>>
  /\ UNCHANGED <<cfgv, procv, cmdq, envv, flagv, args, results, callv, shortStep, overtook>>

\* for remote in self.remotes: remote.send(('close', None))
close_send ==
  /\ pc.at = "close_send"
  /\ IF SendFails(pc.i)
     THEN /\ pc' = Idle
          /\ ret' = Raised("close", "BrokenPipeError")
          /\ UNCHANGED <<cmdq, hist>>
     ELSE /\ cmdq' = [cmdq EXCEPT ![pc.i] = Append(@, Msg("close", <<>>))]
          /\ hist' = [Sent(hist, pc.i, Msg("close", <<>>)) EXCEPT !.closeSent = @ \cup {pc.i}]
          /\ pc' = IF pc.i + 1 < n_procs THEN At("close_send", pc.i + 1)
                   ELSE At("close_join", 0)
          /\ UNCHANGED ret
  /\ UNCHANGED <<cfgv, procv, repq, envv, flagv, args, results, callv, shortStep, overtook>>

\* for p in self.ps: p.join() ; self.closed = True
close_join ==
  /\ pc.at = "close_join"
  /\ Joined(pc.i)
  /\ hist' = [hist EXCEPT !.joined = @ \cup {pc.i}]
  /\ IF pc.i + 1 < n_procs
     THEN /\ pc' = At("close_join", pc.i + 1)
          /\ UNCHANGED <<ret, closed>>
     ELSE /\ pc' = Idle
          /\ closed' = TRUE
          /\ ret' = Returned("close", <<>>)
  /\ UNCHANGED <<cfgv, procv, chanv, envv, waiting, args, results, callv, shortStep, overtook>>

\* ---------------------------------------------------------------- workers
\* parent_remote.close(); env = env_fn_wrapper.x()
worker_boot(w) ==
  /\ ps[w] = "started"
  /\ ps' = [ps EXCEPT ![w] = "running"]
  /\ holdC' = [holdC EXCEPT ![w] = @ \ {w}]
  /\ UNCHANGED <<cfgv, holdW, chanv, envv, flagv, pc, args, results, ret, callv, histv>>

\* worker w replies while a lower-numbered worker still has a command to answer
Overtakes(w) == \E v \in Remotes : v < w /\ ps[v] \in {"started", "running"} /\ cmdq[v] # <<>>

\* cmd, data = remote.recv() delivers the oldest message of the channel
Receives(w, cmd) ==
  /\ ps[w] = "running"
  /\ cmdq[w] # <<>>
  /\ Head(cmdq[w]).cmd = cmd

\* an exception leaves the worker function: the process ends, its handles close
Dies(w, how) ==
  /\ ps' = [ps EXCEPT ![w] = how]
  /\ holdC' = Release(holdC, w)
  /\ holdW' = Release(holdW, w)

\* the reply to ('step', data), given the done flags ds the environments report
StepReply(w, data, ds) ==
  IF topo = "share"
  THEN ShareStepReply(w, envEp[w], data, ds[1])
  ELSE HybridStepReply(HybridStepResults(w, data, ds))

\* the environments the 'step' handler resets before replying
StepResets(w, ds) ==
  IF topo = "share" /\ DoneTriggersReset(ds[1]) THEN {w} ELSE {}

\* number of environments a ('step', data) message steps
StepCount(data) == IF topo = "share" THEN 1 ELSE Min(envs_per_proc, Len(data))

\* how many of the done flags ds are not the plain False of a running episode
NotEnded == [cls |-> "bool", vals |-> <<FALSE>>]
Ended(ds) == Cardinality({j \in DOMAIN ds : ds[j] # NotEnded})

\* cmd == 'step'
worker_step(w) ==
  /\ Receives(w, "step")
  /\ StepCount(Head(cmdq[w]).data) > 0
  /\ \E ds \in [1 .. StepCount(Head(cmdq[w]).data) -> DoneVals] :
       /\ ends + Ended(ds) <= MaxEnds
       /\ ends' = ends + Ended(ds)
       /\ overtook' = (overtook \/ Overtakes(w))
       /\ repq' = [repq EXCEPT ![w] = Append(@, StepReply(w, Head(cmdq[w]).data, ds))]
       /\ envEp' = [k \in DOMAIN envEp |->
                      IF k \in StepResets(w, ds) THEN envEp[k] + 1 ELSE envEp[k]]
  /\ cmdq' = [cmdq EXCEPT ![w] = Tail(@)]
  /\ UNCHANGED <<cfgv, procv, envClosed, fails, faults, flagv, pc, args, results, ret, callv, hist, shortStep>>

\* cmd == 'step' with an empty chunk: zip(*[]) does not unpack into six names
worker_step_empty(w) ==
  /\ Receives(w, "step")
  /\ StepCount(Head(cmdq[w]).data) = 0
  /\ Dies(w, "crashed")
  /\ cmdq' = [cmdq EXCEPT ![w] = Tail(@)]
  /\ UNCHANGED <<cfgv, repq, envv, flagv, pc, args, results, ret, callv, histv>>

\* cmd == 'reset'
worker_reset(w) ==
  /\ Receives(w, "reset")
  /\ repq' = [repq EXCEPT ![w] =
                Append(@, IF topo = "share" THEN EnvReset(w, envEp[w])
                          ELSE HybridResetReply(w))]
  /\ envEp' = [k \in DOMAIN envEp |->
                 IF \E j \in DOMAIN Owned(w) : Owned(w)[j] = k
                 THEN envEp[k] + 1 ELSE envEp[k]]
  /\ overtook' = (overtook \/ Overtakes(w))
  /\ cmdq' = [cmdq EXCEPT ![w] = Tail(@)]
  /\ UNCHANGED <<cfgv, procv, envClosed, fails, faults, ends, flagv, pc, args, results, ret, callv, hist, shortStep>>

\* env.step or env.reset raises inside the worker: nothing catches it
worker_env_raises(w) ==
  /\ Receives(w, "step") \/ Receives(w, "reset")
  /\ fails < MaxFail
  /\ fails' = fails + 1
  /\ faults' = faults \cup {[w |-> w, cmd |-> Head(cmdq[w]).cmd, call |-> Head(cmdq[w]).call]}
  /\ Dies(w, "crashed")
  /\ cmdq' = [cmdq EXCEPT ![w] = Tail(@)]
  /\ UNCHANGED <<cfgv, repq, envEp, envClosed, ends, flagv, pc, args, results, ret, callv, histv>>

\* (mutant of worker_close: the loop breaks without env.close())
worker_close_noenv(w) ==
  /\ Receives(w, "close")
  /\ Dies(w, "exited")
  /\ cmdq' = [cmdq EXCEPT ![w] = Tail(@)]
  /\ UNCHANGED <<cfgv, repq, envv, flagv, pc, args, results, ret, callv, histv>>

\* cmd == 'close': env.close(); remote.close(); break
worker_close(w) ==
  /\ Receives(w, "close")
  /\ envClosed' = [k \in DOMAIN envClosed |->
                     IF \E j \in DOMAIN Owned(w) : Owned(w)[j] = k
                     THEN envClosed[k] + 1 ELSE envClosed[k]]
  /\ Dies(w, "exited")
  /\ cmdq' = [cmdq EXCEPT ![w] = Tail(@)]
  /\ UNCHANGED <<cfgv, repq, envEp, fails, faults, ends, flagv, pc, args, results, ret, callv, histv>>

\* the command tags the worker loop has a branch for
Recognised ==
  IF topo = "share"
  THEN {"step", "reset", "reset_task", "render", "close", "get_spaces", "render_vulnerability"}
  ELSE {"step", "reset", "close"}

\* cmd == 'get_spaces'
worker_get_spaces(w) ==
  /\ Receives(w, "get_spaces")
  /\ "get_spaces" \in Recognised
  /\ repq' = [repq EXCEPT ![w] = Append(@, EnvSpaces(w))]
  /\ UNCHANGED overtook
  /\ cmdq' = [cmdq EXCEPT ![w] = Tail(@)]
  /\ UNCHANGED <<cfgv, procv, envv, flagv, pc, args, results, ret, callv, hist, shortStep>>

\* (mutant of worker_unknown: the loop ignores the message and goes on)
worker_unknown_ignored(w) ==
  /\ ps[w] = "running"
  /\ cmdq[w] # <<>>
  /\ Head(cmdq[w]).cmd \notin Recognised
  /\ cmdq' = [cmdq EXCEPT ![w] = Tail(@)]
  /\ UNCHANGED <<cfgv, procv, repq, envv, flagv, pc, args, results, ret, callv, histv>>

\* else: raise NotImplementedError
worker_unknown(w) ==
  /\ ps[w] = "running"
  /\ cmdq[w] # <<>>
  /\ Head(cmdq[w]).cmd \notin Recognised
  /\ Dies(w, "crashed")
  /\ cmdq' = [cmdq EXCEPT ![w] = Tail(@)]
  /\ UNCHANGED <<cfgv, repq, envv, flagv, pc, args, results, ret, callv, histv>>

\* ------------------------------------------------------------ specification
Controller ==
  \/ ctor_start
  \/ ctor_close
  \/ ctor_get_spaces_send
  \/ ctor_get_spaces_recv
  \/ Call_reset
  \/ reset_send
  \/ reset_recv
  \/ Call_step_async
  \/ step_async_send
  \/ Call_step_wait
  \/ step_wait_recv
  \/ Call_step
  \/ raw_send
  \/ Call_close
  \/ close_drain
  \/ close_send
  \/ close_join

Worker(w) ==
  \/ worker_boot(w)
  \/ worker_step(w)
  \/ worker_step_empty(w)
  \/ worker_reset(w)
  \/ worker_env_raises(w)
  \/ worker_close(w)
  \/ worker_get_spaces(w)
  \/ worker_unknown(w)

Next == Controller \/ \E w \in Remotes : Worker(w)

Spec == Init /\ [][Next]_vars

\* The controller thread keeps running inside a manager method (the caller is
\* free never to call again), and every worker process keeps being scheduled.
InMethod ==
  \/ ctor_start \/ ctor_close \/ ctor_get_spaces_send \/ ctor_get_spaces_recv
  \/ reset_send \/ reset_recv \/ step_async_send \/ step_wait_recv
  \/ close_drain \/ close_send \/ close_join

\* The done flags never reach the controller's control flow, so progress is
\* checked on the runs in which no episode ends (the budget of ends is spent).
InitNoEnds == InitManager /\ ends = MaxEnds

FairSpec ==
  /\ InitNoEnds
  /\ [][Next]_vars
  /\ WF_vars(InMethod)
  /\ \A w \in 0 .. (MaxEnvs - 1) : WF_vars(w \in Remotes /\ Worker(w))

\* =================================================================== claims
\* the done flags for which an episode has ended: a true bool, an all-true array
EpisodeOver(d) ==
  \/ d.cls = "bool" /\ d.vals = <<TRUE>>
  \/ d.cls = "ndarray" /\ \A j \in DOMAIN d.vals : d.vals[j]

\* the last manager call was op and has returned normally
ReturnedFrom(op) == pc = Idle /\ ret.op = op /\ ret.status = "ok"

\* C1: whatever order the workers reply in, every batch that reset() or
\* step_wait() returns holds at position k the value produced by the
\* environment of slot k (given steps requested with one action per slot).
C1_SlotOrder ==
  ((ReturnedFrom("reset") \/ ReturnedFrom("step_wait")) /\ ~shortStep)
    => \A b \in DOMAIN ret.batches :
         \A p \in DOMAIN ret.batches[b] : ret.batches[b][p].env = p - 1

\* C1 witness: step_wait() has returned batches of two or more workers after a
\* worker replied before a lower-numbered one.
C1_Witness ==
  /\ ReturnedFrom("step_wait")
  /\ ~shortStep
  /\ overtook
  /\ n_procs >= 2
  /\ Len(ret.batches[1]) >= 2

\* C2 (the claim as stated): in the grouped topology every 'step' message
\* carries exactly the actions of the slots its worker owns, every slot is
\* owned by some worker, and every stepped environment got its slot's action.
C2_StepAsyncPartition ==
  (topo = "hybrid" /\ ~shortStep)
    => /\ \A c \in Remotes : \A i \in DOMAIN cmdq[c] :
            cmdq[c][i].cmd = "step"
              => /\ cmdq[c][i].data = Owned(c)
                 /\ \A k \in Slots :
                      \E w \in Remotes : \E j \in DOMAIN Owned(w) : Owned(w)[j] = k
       /\ \A c \in Remotes : \A i \in DOMAIN repq[c] :
            \A p \in DOMAIN repq[c][i][1] :
              repq[c][i][1][p].src = "step" => repq[c][i][1][p].act = repq[c][i][1][p].env

\* C3 (the claim as stated): with no more workers requested than slots, every
\* batch returned by reset() and by step_wait() has exactly total_envs entries.
C3_BatchLength ==
  ((ReturnedFrom("reset") \/ ReturnedFrom("step_wait"))
      /\ ~shortStep /\ n_procs_arg <= total_envs)
    => \A b \in DOMAIN ret.batches : Len(ret.batches[b]) = total_envs

\* C4: every reply of shareworker to 'step' carries the reward, done and info
\* of the step; when done is a true bool or an all-true array its ob, s_ob and
\* available_actions are those of one reset of that environment (the next
\* episode), and otherwise they are the step's own.
C4_AutoReset ==
  topo = "share"
    => \A c \in Remotes : \A i \in DOMAIN repq[c] :
         Len(repq[c][i]) = 6
           => LET r == repq[c][i]
                  d == r[4].done
                  e == r[4].ep
                  a == r[4].act
              IN  /\ r[3] = Out("reward", c, "step", e, a, d)
                  /\ r[4] = Out("done", c, "step", e, a, d)
                  /\ r[5] = Out("info", c, "step", e, a, d)
                  /\ d \in DoneVals
                  /\ IF EpisodeOver(d)
                     THEN /\ r[1] = Out("ob", c, "reset", e + 1, NoAct, NoDone)
                          /\ r[2] = Out("s_ob", c, "reset", e + 1, NoAct, NoDone)
                          /\ r[6] = Out("available_actions", c, "reset", e + 1, NoAct, NoDone)
                          /\ envEp[c] >= e + 1
                     ELSE /\ r[1] = Out("ob", c, "step", e, a, d)
                          /\ r[2] = Out("s_ob", c, "step", e, a, d)
                          /\ r[6] = Out("available_actions", c, "step", e, a, d)

\* C4 witness: a step reply whose done is an all-true array and whose ob comes
\* from reset.
C4_Witness ==
  /\ topo = "share"
  /\ \E c \in Remotes : \E i \in DOMAIN repq[c] :
       /\ Len(repq[c][i]) = 6
       /\ repq[c][i][4].done = [cls |-> "ndarray", vals |-> <<TRUE, TRUE>>]
       /\ repq[c][i][1].src = "reset"

\* C5 (the claim as stated): in the grouped topology step_wait() returns six
\* batches, and the obs of a slot whose step reported the episode over is a
\* reset output, not that step's output.
C5_HybridStepReturn ==
  (topo = "hybrid" /\ ReturnedFrom("step_wait"))
    => /\ Len(ret.batches) = 6
       /\ \A p \in DOMAIN ret.batches[1] :
            ret.batches[1][p].src = "step" => ~EpisodeOver(ret.batches[1][p].done)

\* worker c is alive and has a reply on its way: sent and unread, or owed to
\* a command it has not handled yet
WillReply(c) ==
  /\ ps[c] \in {"started", "running"}
  /\ \/ repq[c] # <<>>
     \/ \E i \in DOMAIN cmdq[c] : cmdq[c][i].cmd \in {"step", "reset", "get_spaces"}

\* C6: close() entered while waiting, every worker having a reply on its way,
\* sends 'close' to no worker before it has received a reply from every
\* worker, and (unless a worker dies on its command) it returns with every
\* worker exited and closed true.
C6_CloseWhileWaiting ==
  /\ []((hist.op = "close" /\ waiting /\ hist.closeSent # {}) => hist.drained = Remotes)
  /\ (pc.at = "close_drain" /\ hist.drained = {} /\ \A c \in Remotes : WillReply(c))
       ~> \/ closed /\ ReturnedFrom("close") /\ \A w \in Remotes : ps[w] = "exited"
          \/ \E w \in Remotes : ps[w] = "crashed"

\* C6 witness: a close() that was entered while waiting has drained every
\* worker, and has returned with every worker exited.
C6_Witness ==
  /\ closed /\ waiting
  /\ ReturnedFrom("close")
  /\ hist.drained = Remotes
  /\ hist.joined = Remotes
  /\ n_procs >= 2
  /\ \A w \in Remotes : ps[w] = "exited"

\* C7 (the claim as stated): reset() on a manager whose workers all run
\* returns normally, every value it returns is a reset output, and it leaves
\* no message on any channel.
C7_ResetAnyTime ==
  (pc = Idle /\ ret.op = "reset" /\ \A w \in Remotes : ps[w] = "running")
    => /\ ret.status = "ok"
       /\ \A b \in DOMAIN ret.batches :
            \A p \in DOMAIN ret.batches[b] : ret.batches[b][p].src = "reset"
       /\ \A c \in Remotes : repq[c] = <<>> /\ cmdq[c] = <<>>

\* C8: closed never goes back to false, and once it is true no step adds a
\* message to any controller-to-worker channel.
C8_ClosedIsFinal ==
  [][closed => (closed' /\ \A c \in Remotes : Len(cmdq'[c]) <= Len(cmdq[c]))]_vars

\* C8 witness: on a closed manager a later reset or step_async has run.
C8_Witness ==
  /\ closed
  /\ pc = Idle
  /\ ret.op \in {"reset", "step_async"}
  /\ ret.status # "running"

\* C9: close() on a closed manager returns at once: nothing is sent, received
\* or joined, no error is raised, and waiting, closed, the channels and the
\* processes are unchanged.
C9_SecondCloseNoOp ==
  [][(closed /\ calls' = calls + 1 /\ hist'.op = "close")
       => /\ pc' = Idle
          /\ ret' = Returned("close", <<>>)
          /\ hist'.sent = {} /\ hist'.drained = {} /\ hist'.joined = {}
          /\ UNCHANGED <<waiting, closed, cmdq, repq, ps, holdC, holdW>>]_vars

\* C9 witness: a close() call has returned on a manager that was already closed.
C9_Witness ==
  /\ closed
  /\ ReturnedFrom("close")
  /\ hist.op = "close"
  /\ hist.joined = {}

\* C10 (the claim as stated): close() entered while some worker had already
\* exited does not raise, does not block forever on that worker, and when it
\* has returned the manager is closed.
C10_CloseWithDeadWorker ==
  (hist.op = "close" /\ hist.dead # {})
    => /\ ret.status # "raised"
       /\ ~(pc.at = "close_drain" /\ pc.i \in hist.dead
               /\ repq[pc.i] = <<>> /\ holdW[pc.i] # {})
       /\ (pc = Idle => closed)

\* the owned slots of workers 0 .. n-1, concatenated in worker order
RECURSIVE ConcatOwned(_)
ConcatOwned(n) == IF n = 0 THEN <<>> ELSE ConcatOwned(n - 1) \o Owned(n - 1)

\* C11: in the grouped topology with no more workers requested than slots,
\* the worker count is min(P, N), worker w owns exactly the slots
\* w*envs_per_proc .. (w+1)*envs_per_proc - 1 with envs_per_proc = N div
\* workers (its reset replies come from those slots, in that order), and when
\* the worker count divides N the owned ranges concatenated in worker order
\* are 0 .. N-1.
C11_GroupedPartition ==
  (topo = "hybrid" /\ n_procs_arg <= total_envs)
    => /\ n_procs = Min(n_procs_arg, total_envs)
       /\ envs_per_proc = total_envs \div n_procs
       /\ \A w \in Remotes :
            /\ Len(Owned(w)) = total_envs \div n_procs
            /\ \A j \in DOMAIN Owned(w) :
                 Owned(w)[j] = (w * (total_envs \div n_procs)) + (j - 1)
       /\ \A c \in Remotes : \A i \in DOMAIN repq[c] :
            \A p \in DOMAIN repq[c][i][1] :
              repq[c][i][1][p].src = "reset"
                => /\ Len(repq[c][i][1]) = total_envs \div n_procs
                   /\ repq[c][i][1][p].env = (c * (total_envs \div n_procs)) + (p - 1)
       /\ (total_envs % n_procs = 0)
            => ConcatOwned(n_procs) = [k \in 1 .. total_envs |-> k - 1]

\* C11 witness: two workers share two slots evenly and the second worker has
\* answered a reset with the outputs of the slots it owns.
C11_Witness ==
  /\ topo = "hybrid" /\ n_procs = 2 /\ total_envs = 2
  /\ repq[1] # <<>>
  /\ repq[1][1][1][1].src = "reset"

\* what step_async(args) puts on the channels, in sending order
ExpectedStepMsgs ==
  [c \in 1 .. StepTargets |-> [c |-> c - 1, cmd |-> "step", data |-> StepPayload(c - 1)]]

\* the state step_async leaves: its messages sent, nothing received, waiting set
AfterAsync == waiting /\ hist.msgs = ExpectedStepMsgs /\ hist.recvd = <<>>

\* the state step_wait leaves once it has received from every remote
AfterWait ==
  /\ ~waiting
  /\ [i \in 1 .. Len(hist.recvd) |-> hist.recvd[i].c] = [i \in 1 .. n_procs |-> i - 1]
  /\ ret = Gather(ret.op, [i \in 1 .. Len(hist.recvd) |-> hist.recvd[i].reply], 6)

\* C12: step(actions) is step_async(actions) followed by step_wait(): it
\* enters its wait in the very state step_async returns in (the same messages
\* sent in the same order, waiting set, nothing received yet), and it ends as
\* step_wait ends (one reply taken from every remote in index order, waiting
\* cleared, the same batches built from those replies); a BrokenPipeError of
\* the sends or an EOFError of the receives leaves it as it leaves them.
C12_StepIsAsyncThenWait ==
  /\ ReturnedFrom("step_async") => AfterAsync
  /\ (inStep /\ pc = At("step_wait_recv", 0)) => (AfterAsync /\ results = <<>>)
  /\ (pc = Idle /\ ret.op \in {"step_wait", "step"}
        /\ ret.err \notin {"EOFError", "BrokenPipeError"}) => AfterWait
  /\ (pc = Idle /\ ret.op \in {"step_wait", "step"} /\ ret.err = "EOFError")
       => /\ Len(hist.recvd) < n_procs
          /\ ret.op = "step" => (waiting /\ hist.msgs = ExpectedStepMsgs)
  /\ (pc = Idle /\ ret.op \in {"step_async", "step"} /\ ret.err = "BrokenPipeError")
       => /\ hist.recvd = <<>>
          /\ Len(hist.msgs) < Len(ExpectedStepMsgs)
          /\ hist.msgs = SubSeq(ExpectedStepMsgs, 1, Len(hist.msgs))

\* C12 witness: step() called with no step pending and every channel empty has
\* returned the batches of two or more workers.
C12_Witness ==
  /\ ReturnedFrom("step")
  /\ n_procs >= 2
  /\ hist.idle = Remotes
  /\ ~misused
  /\ Len(hist.recvd) = n_procs
  /\ Len(ret.batches) >= 3

\* construction has finished and every worker has run its first statement
Constructed ==
  /\ pc.at \notin {"ctor_start", "ctor_close", "ctor_get_spaces_send", "ctor_get_spaces_recv"}
  /\ \A w \in Remotes : ps[w] = "running"

\* C13 (the claim as stated): once construction has completed and every worker
\* runs its loop, the controller end of each channel is open in the controller
\* only and the worker end in the worker of that channel only.
C13_OneHolderPerSide ==
  Constructed => \A c \in Remotes : holdC[c] = {Ctl} /\ holdW[c] = {c}

\* every worker process has ended and close has been called exactly once on
\* every environment a worker owns
TornDown ==
  \A w \in Remotes :
    /\ ps[w] \in {"exited", "crashed"}
    /\ \A j \in DOMAIN Owned(w) : envClosed[Owned(w)[j]] = 1

\* close() has sent 'close' to every worker before it joins the first one
CloseSentBeforeJoin ==
  (pc.at = "close_join" \/ hist.joined # {}) => hist.closeSent = Remotes

\* a worker that takes 'close' off its channel exits without sending anything
NoReplyToClose ==
  \A w \in Remotes :
    (cmdq[w] # <<>> /\ Head(cmdq[w]).cmd = "close" /\ cmdq'[w] = Tail(cmdq[w]))
      => (repq'[w] = repq[w] /\ ps'[w] = "exited")

TakesUnknown(w) ==
  /\ ps[w] = "running"
  /\ cmdq[w] # <<>>
  /\ Head(cmdq[w]).cmd \notin Recognised
  /\ cmdq'[w] = Tail(cmdq[w])

\* C15: a worker loop of either topology that receives a command tag it does
\* not recognise sends no reply for it and ends; a worker that has ended takes
\* no later message off its channel and sends nothing more.
C15_UnknownCommandStops ==
  [][\A w \in Remotes :
       /\ TakesUnknown(w) => (repq'[w] = repq[w] /\ ps'[w] = "crashed")
       /\ ps[w] = "crashed"
            => /\ ps'[w] = "crashed"
               /\ Len(cmdq'[w]) >= Len(cmdq[w])
               /\ Len(repq'[w]) <= Len(repq[w])]_vars

\* C15 witness: a worker has stopped on an unknown tag and a command sent to it
\* afterwards lies unhandled on its channel.
C15_Witness ==
  \E w \in Remotes :
    /\ ps[w] = "crashed"
    /\ raws = 1 /\ fails = 0 /\ ~shortStep
    /\ cmdq[w] # <<>>
    /\ Head(cmdq[w]).cmd \in {"step", "reset", "close"}

\* the manager call that waits for the reply to the command of fault f has
\* returned to the caller: reset() itself, step() itself, or the step_wait()
\* that follows the step_async() which sent it
AwaitedBy(f) ==
  /\ pc = Idle
  /\ \/ f.cmd = "reset" /\ ret.op = "reset" /\ calls = f.call
     \/ f.cmd = "step" /\ ret.op = "step" /\ calls = f.call
     \/ f.cmd = "step" /\ ret.op = "step_wait" /\ calls = f.call + 1

\* C16 (the claim as stated, for callers that keep the documented
\* preconditions): a worker whose environment raised on step or reset has
\* ended, and the reset(), step() or step_wait() that waits for its reply does
\* not return a batch: it raises, or it has not returned.
C16_EnvRaiseNoBatch ==
  ~misused
    => \A f \in faults :
         /\ ps[f.w] = "crashed"
         /\ AwaitedBy(f) => ret.status = "raised"

\* the one message the one-per-process constructor sends
GetSpacesOnce == <<[c |-> 0, cmd |-> "get_spaces", data |-> <<>>]>>

\* C17: while a worker process is still to be started nothing has been sent on
\* any channel; the whole construction sends nothing but one 'get_spaces' to
\* worker 0, in the one-per-process manager only; and when construction has
\* returned that manager has sent it and received its reply (the spaces of
\* environment 0) and every channel of either manager is empty.
C17_ConstructionProtocol ==
  /\ (\E w \in Remotes : ps[w] = "new")
       => (hist.msgs = <<>> /\ \A c \in Remotes : cmdq[c] = <<>> /\ repq[c] = <<>>)
  /\ calls = 0
       => /\ hist.msgs \in {<<>>, GetSpacesOnce}
          /\ topo = "hybrid" => hist.msgs = <<>>
          /\ \A c \in Remotes : Len(cmdq[c]) + Len(repq[c]) <= Len(hist.msgs)
          /\ \A c \in Remotes : c # 0 => (cmdq[c] = <<>> /\ repq[c] = <<>>)
  /\ (calls = 0 /\ pc = Idle)
       => /\ \A c \in Remotes : cmdq[c] = <<>> /\ repq[c] = <<>>
          /\ topo = "share" => (hist.msgs = GetSpacesOnce /\ ret = Returned("__init__", EnvSpaces(0)))

\* C17 witness: the one-per-process constructor has returned for two workers,
\* with the spaces worker 0 replied.
C17_Witness ==
  /\ topo = "share" /\ n_procs >= 2
  /\ calls = 0 /\ pc = Idle
  /\ ret = Returned("__init__", EnvSpaces(0))
  /\ hist.msgs = GetSpacesOnce

\* the exchanges outstanding on channel c: commands not yet handled and
\* replies not yet read
Outstanding(c) == Len(cmdq[c]) + Len(repq[c])

\* C18 (the claim as stated): between manager calls, when the caller has kept
\* the preconditions of step_async and step_wait and passed one action per
\* slot, every channel carries exactly one outstanding exchange while waiting
\* is true and none while it is false.
C18_OneExchangeWhileWaiting ==
  (pc = Idle /\ ~misused /\ ~shortStep)
    => \A c \in Remotes : Outstanding(c) = IF waiting THEN 1 ELSE 0

\* C18 (amended): the same on an open manager all of whose workers are alive.
C18_OneExchangeOpenAlive ==
  (pc = Idle /\ ~misused /\ ~closed /\ ~shortStep
      /\ \A w \in Remotes : ps[w] \in {"started", "running"})
    => \A c \in Remotes : Outstanding(c) = IF waiting THEN 1 ELSE 0

\* C18 witness: on a manager of two workers a reset() called while a step was
\* pending has returned: a reply is unread on every channel.
C18_Witness ==
  /\ pc = Idle /\ ~misused /\ ~closed /\ ~shortStep
  /\ \A w \in Remotes : ps[w] = "running"
  /\ n_procs >= 2
  /\ waiting
  /\ ret.op = "reset"
  /\ \A c \in Remotes : Len(repq[c]) = 1 /\ cmdq[c] = <<>>

\* the manager is open, no step is pending, every worker is alive and no
\* message is on any channel
QuietOpen ==
  /\ ~waiting /\ ~closed
  /\ \A w \in Remotes : ps[w] \in {"started", "running"}
  /\ \A c \in Remotes : cmdq[c] = <<>> /\ repq[c] = <<>>

\* step_wait() is in its first receive, on worker 0, and nobody has anything
\* to receive
StepWaitDeadlock ==
  /\ QuietOpen
  /\ hist.op = "step_wait"
  /\ pc = At("step_wait_recv", 0)
  /\ ret.status = "running"

\* C19: step_wait() called on an open manager with no step pending and every
\* channel empty goes into that deadlock, and no step of the controller or of
\* a worker ever leaves it: step_wait() never returns and never raises.
C19_StepWaitWithoutStep ==
  [][/\ (pc = Idle /\ QuietOpen /\ calls' = calls + 1 /\ hist'.op = "step_wait")
          => StepWaitDeadlock'
     /\ StepWaitDeadlock => StepWaitDeadlock']_vars

\* C19 witness: step_wait() is deadlocked with two or more workers, all in
\* their receive.
C19_Witness ==
  /\ StepWaitDeadlock
  /\ n_procs >= 2
  /\ \A w \in Remotes : ps[w] = "running"

\* the live workers whose channel carried nothing when the running call began
Starved == hist.idle \ hist.dead

\* the running call is a step_wait(), or a close() that found waiting true, of
\* the one-per-process manager, begun while some live worker had no step to answer
WaitsOnStarved ==
  /\ topo = "share" /\ ~misused
  /\ hist.op \in {"step_wait", "close"}
  /\ hist.op = "close" => waiting
  /\ Starved # {}

\* C20: in the one-per-process manager step_async(actions) with fewer actions
\* than workers sends 'step' to the first len(actions) workers only and still
\* sets waiting; a following step_wait(), or close() (which drains), never
\* returns normally, never receives from a worker after the first one that has
\* no step to answer, sends no 'close', and once it is in the receive on that
\* worker it stays there for ever.
C20_ShortStepAsyncBlocks ==
  /\ []((topo = "share" /\ pc = Idle /\ ret = Returned("step_async", <<>>)
           /\ Len(args) < n_procs)
          => /\ waiting
             /\ hist.sent = {c \in Remotes : c < Len(args)}
             /\ hist.msgs = [c \in 1 .. Len(args) |->
                               [c |-> c - 1, cmd |-> "step", data |-> args[c]]])
  /\ [](WaitsOnStarved
          => /\ ~(pc = Idle /\ ret.status = "ok")
             /\ pc.at \notin {"close_send", "close_join"}
             /\ hist.closeSent = {}
             /\ pc.at \in {"step_wait_recv", "close_drain"}
                  => \A k \in Starved : pc.i <= k)
  /\ [][(WaitsOnStarved /\ pc.at \in {"step_wait_recv", "close_drain"} /\ pc.i \in Starved)
          => (pc' = pc /\ repq'[pc.i] = <<>> /\ ret' = ret)]_vars

\* C20 witness: after step_async with one action for two workers, step_wait()
\* has taken worker 0's reply and is in the receive on worker 1, which was
\* sent nothing.
C20_Witness ==
  /\ WaitsOnStarved
  /\ shortStep
  /\ n_procs = 2
  /\ hist.op = "step_wait"
  /\ Starved = {1}
  /\ pc = At("step_wait_recv", 1)
  /\ Len(hist.recvd) = 1
  /\ ps[1] = "running" /\ cmdq[1] = <<>> /\ repq[1] = <<>>

====
